---- MODULE Spec2Model ----
(***************************************************************************)
(* Model of src/tools/tidy/src/deps.rs: the whitelist traversal            *)
(* (check_whitelist / check_crate_whitelist) and the vendored license      *)
(* check (check / check_license / extract_license).                        *)
(*                                                                         *)
(* A Rust string is a sequence of one-character strings, so that           *)
(* split, starts_with, find, rfind, slicing and the derived Ord of Crate   *)
(* are computed on characters as the code computes them on bytes.          *)
(***************************************************************************)
EXTENDS Integers, Sequences, FiniteSets, TLC

VARIABLES
    nodes,       \* resolve.nodes: Seq of [id, dependencies]
    roots,       \* WHITELIST_CRATES, the crates check_whitelist iterates
    whitelist,   \* the HashSet<Crate> built from WHITELIST
    visited,     \* BTreeSet<Crate> shared by all roots
    unapproved,  \* check_whitelist's aggregate BTreeSet<Crate>
    stack,       \* activation records of check_crate_whitelist
    rootIdx,     \* position of the for loop over WHITELIST_CRATES
    pc,          \* "run" | "done" | "aborted" | "check" | "checked"
    panic,       \* message of the panic that ended the process, or ""
    bad,         \* the caller's *bad flag
    stdout,      \* lines printed so far
    lookups,     \* log of the node lookups that succeeded: [krate, node]
    dirs,        \* entries of <path>/vendor: [path, exists, lines]
    dirIdx,      \* position of the for loop over read_dir
    licenseCalls \* log of the entries check_license was called on

vars == <<nodes, roots, whitelist, visited, unapproved, stack, rootIdx, pc,
          panic, bad, stdout, lookups, dirs, dirIdx, licenseCalls>>

whitelistVars == <<nodes, roots, whitelist, visited, unapproved, stack,
                   rootIdx, lookups>>

licenseVars == <<dirs, dirIdx, licenseCalls>>

----------------------------------------------------------------------------
(* Bounds of the model *)

MaxNodes == 3    \* most nodes in resolve.nodes
MaxDeps == 2     \* most dependency references of one node
MaxDepth == 3    \* most nested activations of check_crate_whitelist

----------------------------------------------------------------------------
(* Strings *)

\* The characters the model's strings use, in byte order.
ByteOrder ==
    <<" ", "\"", "-", ".", "/", "0", "1", "2", "=", "A", "G", "I",
      "L", "M", "O", "P", "R", "T", "U", "_", "a", "b", "c", "d",
      "e", "f", "h", "i", "k", "l", "m", "n", "o", "p", "q", "r",
      "s", "t", "u", "v", "y", "z">>

Byte(c) == CHOOSE i \in 1..Len(ByteOrder) : ByteOrder[i] = c

Min(a, b) == IF a <= b THEN a ELSE b

\* str's Ord: lexicographic on bytes, a proper prefix first.
StrLess(s, t) ==
    \E i \in 1..(Min(Len(s), Len(t)) + 1) :
        /\ \A j \in 1..(i - 1) : s[j] = t[j]
        /\ \/ i > Len(s) /\ i <= Len(t)
           \/ i <= Len(s) /\ i <= Len(t) /\ Byte(s[i]) < Byte(t[i])

\* str::starts_with
StartsWith(s, p) == Len(p) <= Len(s) /\ SubSeq(s, 1, Len(p)) = p

\* str::find(c): 1-based position of the first c, 0 for None
Find(s, c) ==
    IF \E i \in 1..Len(s) : s[i] = c
    THEN CHOOSE i \in 1..Len(s) : s[i] = c /\ \A j \in 1..(i - 1) : s[j] # c
    ELSE 0

\* str::rfind(c): 1-based position of the last c, 0 for None
RFind(s, c) ==
    IF \E i \in 1..Len(s) : s[i] = c
    THEN CHOOSE i \in 1..Len(s) : s[i] = c /\ \A j \in (i + 1)..Len(s) : s[j] # c
    ELSE 0

----------------------------------------------------------------------------
(* Crate *)

\* Crate::from_str: s.split(" ").next().unwrap(), the text before the first
\* space (all of s when it has none).
from_str(s) ==
    IF Find(s, " ") = 0 THEN s ELSE SubSeq(s, 1, Find(s, " ") - 1)

\* id_str without the separator: format!("{}", self.0)
id_str_NoSeparator(krate) == krate

\* Crate::id_str: format!("{} ", self.0)
id_str(krate) == Append(krate, " ")

\* The reverse of the derived order.
CrateLess_Reversed(a, b) == StrLess(b, a)

\* derive(PartialOrd, Ord) on Crate(&str)
CrateLess(a, b) == StrLess(a, b)

\* Iteration order of a BTreeSet<Crate>: ascending by Ord.
RECURSIVE BTreeIter(_)
BTreeIter(S) ==
    IF S = {} THEN <<>>
    ELSE LET m == CHOOSE x \in S : \A y \in S \ {x} : CrateLess(x, y)
         IN  <<m>> \o BTreeIter(S \ {m})

----------------------------------------------------------------------------
(* Inputs of the whitelist check *)

CrateNames == { <<"a","r">>, <<"a","r","e","n","a">> }

\* Raw node ids of `cargo metadata`: "<name> <version> ..."; ar occurs in
\* two versions.
RawIds ==
    { <<"a","r"," ","1">>, <<"a","r"," ","2">>, <<"a","r","e","n","a"," ","1">> }

\* Raw dependency references, of the same form.
DepRefs == { <<"a","r"," ","1">>, <<"a","r","e","n","a"," ","1">> }

\* Sequences without repetition of elements of S, of length lo..hi.
SeqsOf(S, lo, hi) ==
    UNION { { s \in [1..n -> S] : \A i, j \in 1..n : i # j => s[i] # s[j] } :
            n \in lo..hi }

DepLists == SeqsOf(DepRefs, 0, MaxDeps)

\* A resolve graph: nodes with pairwise distinct raw ids.
Graphs ==
    UNION { { g \in [1..n -> [id : RawIds, dependencies : DepLists]] :
              \A i, j \in 1..n : i # j => g[i].id # g[j].id } :
            n \in 0..MaxNodes }

\* WHITELIST_CRATES: one or more distinct crate names, in any order.
RootLists == SeqsOf(CrateNames, 1, Cardinality(CrateNames))

\* WHITELIST as written: entries that end in a space (lines 56-109) and
\* entries that do not (line 110).
WhitelistEntries ==
    { <<"a","r"," ">>, <<"a","r">>, <<"a","r","e","n","a">> }

----------------------------------------------------------------------------
(* check_crate_whitelist *)

\* A traversal that never finds a crate in the visited set.
AlreadyVisited_Never(v, krate) == FALSE

\* visited.contains(&krate)
AlreadyVisited(v, krate) == krate \in v

\* resolve.nodes.iter().find(|n| n.id.starts_with(&krate.id_str())):
\* the index of the first match, 0 for None.
FindNode(g, krate) ==
    IF \E i \in 1..Len(g) : StartsWith(g[i].id, id_str(krate))
    THEN CHOOSE i \in 1..Len(g) :
            /\ StartsWith(g[i].id, id_str(krate))
            /\ \A j \in 1..(i - 1) : ~StartsWith(g[j].id, id_str(krate))
    ELSE 0

\* The set a fresh activation starts with: krate unless whitelisted.
LocalUnapproved(wl, krate) == IF krate \in wl THEN {} ELSE {krate}

\* A call returns `ret` to the activation on top of `stk`, or to the loop of
\* check_whitelist when `stk` is empty; the caller appends it and moves on.
ReturnTo(stk, ret) ==
    IF stk = <<>>
    THEN /\ unapproved' = unapproved \cup ret
         /\ rootIdx' = rootIdx + 1
         /\ stack' = stk
    ELSE /\ stack' = [stk EXCEPT ![Len(stk)] =
                        [@ EXCEPT !.unapproved = @ \cup ret, !.next = @ + 1]]
         /\ UNCHANGED <<unapproved, rootIdx>>

\* An entry that returns instead of panicking when the crate has no node.
Invoke_SkipMissing(krate) ==
    IF AlreadyVisited(visited, krate)
    THEN /\ ReturnTo(stack, {})
         /\ UNCHANGED <<visited, lookups, pc, panic>>
    ELSE /\ visited' = visited \cup {krate}
         /\ IF FindNode(nodes, krate) = 0
            THEN /\ ReturnTo(stack, LocalUnapproved(whitelist, krate))
                 /\ UNCHANGED <<lookups, pc, panic>>
            ELSE /\ Len(stack) < MaxDepth
                 /\ stack' = Append(stack,
                        [krate |-> krate,
                         node |-> FindNode(nodes, krate),
                         next |-> 1,
                         unapproved |-> LocalUnapproved(whitelist, krate)])
                 /\ lookups' = Append(lookups,
                        [krate |-> krate, node |-> FindNode(nodes, krate)])
                 /\ UNCHANGED <<unapproved, rootIdx, pc, panic>>

\* Entry of check_crate_whitelist(whitelist, resolve, visited, krate) up to
\* the node lookup.
Invoke(krate) ==
    IF AlreadyVisited(visited, krate)
    THEN /\ ReturnTo(stack, {})
         /\ UNCHANGED <<visited, lookups, pc, panic>>
    ELSE /\ visited' = visited \cup {krate}
         /\ IF FindNode(nodes, krate) = 0
            THEN /\ pc' = "aborted"
                 /\ panic' = "crate does not exist"
                 /\ UNCHANGED <<stack, unapproved, rootIdx, lookups>>
            ELSE /\ Len(stack) < MaxDepth
                 /\ stack' = Append(stack,
                        [krate |-> krate,
                         node |-> FindNode(nodes, krate),
                         next |-> 1,
                         unapproved |-> LocalUnapproved(whitelist, krate)])
                 /\ lookups' = Append(lookups,
                        [krate |-> krate, node |-> FindNode(nodes, krate)])
                 /\ UNCHANGED <<unapproved, rootIdx, pc, panic>>

\* check_whitelist's loop calls check_crate_whitelist on the next root.
CallRoot ==
    /\ pc = "run"
    /\ stack = <<>>
    /\ rootIdx <= Len(roots)
    /\ Invoke(roots[rootIdx])
    /\ UNCHANGED <<nodes, roots, whitelist, bad, stdout, licenseVars>>

\* The running activation parses its next dependency reference and recurses.
CallDep ==
    /\ pc = "run"
    /\ stack # <<>>
    /\ LET top == stack[Len(stack)]
           deps == nodes[top.node].dependencies
       IN  /\ top.next <= Len(deps)
           /\ Invoke(from_str(deps[top.next]))
    /\ UNCHANGED <<nodes, roots, whitelist, bad, stdout, licenseVars>>

\* The running activation has walked all its dependencies and returns.
Return ==
    /\ pc = "run"
    /\ stack # <<>>
    /\ LET top == stack[Len(stack)]
       IN  /\ top.next > Len(nodes[top.node].dependencies)
           /\ ReturnTo(SubSeq(stack, 1, Len(stack) - 1), top.unapproved)
    /\ UNCHANGED <<nodes, roots, whitelist, visited, pc, panic, bad, stdout,
                   lookups, licenseVars>>

\* println!("* {}", dep.id_str()) for each dep of the BTreeSet, in order
ViolationLines(S) ==
    [i \in 1..Cardinality(S) |-> [fmt |-> "* {}", arg |-> id_str(BTreeIter(S)[i])]]

\* check_whitelist after the loop: print the unapproved crates, set *bad.
Report ==
    /\ pc = "run"
    /\ stack = <<>>
    /\ rootIdx > Len(roots)
    /\ pc' = "done"
    /\ IF Cardinality(unapproved) > 0
       THEN /\ stdout' = stdout
                    \o <<[fmt |-> "Dependencies not on the whitelist:", arg |-> <<>>]>>
                    \o ViolationLines(unapproved)
            /\ bad' = TRUE
       ELSE UNCHANGED <<stdout, bad>>
    /\ UNCHANGED <<nodes, roots, whitelist, visited, unapproved, stack, rootIdx,
                   panic, lookups, licenseVars>>

\* check_whitelist never reads *bad, it only sets it; the flag starts false so
\* that a set flag is this check's doing.
Init ==
    /\ nodes \in Graphs
    /\ roots \in RootLists
    /\ whitelist \in SUBSET WhitelistEntries
    /\ visited = {}
    /\ unapproved = {}
    /\ stack = <<>>
    /\ rootIdx = 1
    /\ pc = "run"
    /\ panic = ""
    /\ bad = FALSE
    /\ stdout = <<>>
    /\ lookups = <<>>
    /\ dirs = <<>>
    /\ dirIdx = 0
    /\ licenseCalls = <<>>

Next == CallRoot \/ CallDep \/ Return \/ Report

Spec == Init /\ [][Next]_vars

----------------------------------------------------------------------------
(* The license check *)

MaxDirs == 2     \* most entries of the vendor directory
MaxLines == 2    \* most lines of a Cargo.toml

LICENSES ==
    { <<"M","I","T","/","A","p","a","c","h","e","-","2",".","0">>,
      <<"M","I","T"," ","/"," ","A","p","a","c","h","e","-","2",".","0">>,
      <<"A","p","a","c","h","e","-","2",".","0","/","M","I","T">>,
      <<"A","p","a","c","h","e","-","2",".","0"," ","/"," ","M","I","T">>,
      <<"M","I","T"," ","O","R"," ","A","p","a","c","h","e","-","2",".","0">>,
      <<"M","I","T">>,
      <<"U","n","l","i","c","e","n","s","e","/","M","I","T">> }

EXCEPTIONS ==
    { <<"m","d","b","o","o","k">>,
      <<"o","p","e","n","s","s","l">>,
      <<"p","e","s","t">>,
      <<"t","h","r","e","a","d","-","i","d">>,
      <<"t","o","m","l","-","q","u","e","r","y">>,
      <<"i","s","-","m","a","t","c","h">>,
      <<"c","s","s","p","a","r","s","e","r">>,
      <<"s","m","a","l","l","v","e","c">>,
      <<"f","u","c","h","s","i","a","-","z","i","r","c","o","n","-","s","y","s">>,
      <<"f","u","c","h","s","i","a","-","z","i","r","c","o","n">>,
      <<"c","s","s","p","a","r","s","e","r","-","m","a","c","r","o","s">>,
      <<"s","e","l","e","c","t","o","r","s">>,
      <<"c","l","i","p","p","y","_","l","i","n","t","s">> }

\* "src/vendor/", the prefix check() puts before an exception's name
VendorPrefix == <<"s","r","c","/","v","e","n","d","o","r","/">>

\* Paths of entries of <path>/vendor, for path = "src".
DirPaths ==
    { <<"s","r","c","/","v","e","n","d","o","r","/","p","e","s","t">>,
      <<"s","r","c","/","v","e","n","d","o","r","/","l","i","b","c">> }

\* Lines a vendored Cargo.toml may hold: a license line with an allowed
\* license, with another license, with one quote, with none, and another key.
ManifestLines ==
    { <<"l","i","c","e","n","s","e"," ","="," ","\"","M","I","T","\"">>,
      <<"l","i","c","e","n","s","e"," ","="," ","\"","G","P","L","-","2",".","0","\"">>,
      <<"l","i","c","e","n","s","e"," ","="," ","\"","M","I","T">>,
      <<"l","i","c","e","n","s","e"," ","="," ","M","I","T">>,
      <<"n","a","m","e"," ","="," ","\"","l","i","b","c","\"">> }

\* A Cargo.toml that exists, by its lines, or one that does not exist.
Manifests ==
    { [exists |-> TRUE, lines |-> l] :
        l \in UNION { [1..n -> ManifestLines] : n \in 0..MaxLines } }
    \cup { [exists |-> FALSE, lines |-> <<>>] }

\* What read_dir yields: entries with pairwise distinct paths.
DirLists ==
    UNION { { d \in [1..n -> [path : DirPaths, toml : Manifests]] :
              \A i, j \in 1..n : i # j => d[i].path # d[j].path } :
            n \in 0..MaxDirs }

\* str::contains
Contains(s, p) ==
    \E i \in 0..(Len(s) - Len(p)) : SubSeq(s, i + 1, i + Len(p)) = p

\* EXCEPTIONS.iter().any(|e| path.contains(&format!("src/vendor/{}", e)))
IsException(path) ==
    \E exception \in EXCEPTIONS : Contains(path, VendorPrefix \o exception)

\* extract_license: the text between the first and the last double quote;
\* &line[f + 1..l] panics when f + 1 > l, that is when both are the same quote.
extract_license(line) ==
    LET first_quote == Find(line, "\"")
        last_quote == RFind(line, "\"")
    IN  IF first_quote # 0 /\ last_quote # 0
        THEN IF first_quote + 1 > last_quote
             THEN [panics |-> TRUE, license |-> <<>>]
             ELSE [panics |-> FALSE,
                   license |-> SubSeq(line, first_quote + 1, last_quote - 1)]
        ELSE [panics |-> FALSE, license |-> <<"b","a","d","-","l","i","c","e","n","s","e","-","p","a","r","s","e">>]

\* Index of the first line that starts with "license", 0 when there is none.
LicenseLine(lines) ==
    IF \E i \in 1..Len(lines) : StartsWith(lines[i], <<"l","i","c","e","n","s","e">>)
    THEN CHOOSE i \in 1..Len(lines) :
            /\ StartsWith(lines[i], <<"l","i","c","e","n","s","e">>)
            /\ \A j \in 1..(i - 1) : ~StartsWith(lines[j], <<"l","i","c","e","n","s","e">>)
    ELSE 0

\* check_license(path): its result ("true" | "false" | "panic"), the lines it
\* prints and the message it panics with.
check_license(dir) ==
    LET lines == dir.toml.lines
        i == LicenseLine(lines)
    IN  IF ~dir.toml.exists
        THEN [result |-> "panic", out |-> <<>>, msg |-> "{} does not exist"]
        ELSE IF i = 0
        THEN [result |-> "false",
              out |-> <<[fmt |-> "no license in {}", arg |-> <<dir.path>>]>>,
              msg |-> ""]
        ELSE IF extract_license(lines[i]).panics
        THEN [result |-> "panic", out |-> <<>>,
              msg |-> "slice index starts after it ends"]
        ELSE IF extract_license(lines[i]).license \notin LICENSES
        THEN [result |-> "false",
              out |-> <<[fmt |-> "invalid license {} in {}",
                         arg |-> <<extract_license(lines[i]).license, dir.path>>]>>,
              msg |-> ""]
        ELSE [result |-> "true", out |-> <<>>, msg |-> ""]

\* check(): an entry of the vendor directory that is an exception is skipped.
CheckSkip ==
    /\ pc = "check"
    /\ dirIdx <= Len(dirs)
    /\ IsException(dirs[dirIdx].path)
    /\ dirIdx' = dirIdx + 1
    /\ UNCHANGED <<whitelistVars, pc, panic, bad, stdout, dirs, licenseCalls>>

\* check(): *bad = *bad || !check_license(&toml) on any other entry; the
\* right operand is evaluated only when *bad is false.
CheckDir ==
    /\ pc = "check"
    /\ dirIdx <= Len(dirs)
    /\ ~IsException(dirs[dirIdx].path)
    /\ IF bad
       THEN /\ dirIdx' = dirIdx + 1
            /\ UNCHANGED <<pc, panic, bad, stdout, licenseCalls>>
       ELSE /\ licenseCalls' = Append(licenseCalls, dirIdx)
            /\ IF check_license(dirs[dirIdx]).result = "panic"
               THEN /\ pc' = "aborted"
                    /\ panic' = check_license(dirs[dirIdx]).msg
                    /\ UNCHANGED <<bad, stdout, dirIdx>>
               ELSE /\ bad' = (check_license(dirs[dirIdx]).result = "false")
                    /\ stdout' = stdout \o check_license(dirs[dirIdx]).out
                    /\ dirIdx' = dirIdx + 1
                    /\ UNCHANGED <<pc, panic>>
    /\ UNCHANGED <<whitelistVars, dirs>>

\* check() after the loop: assert!(saw_dir, "no vendored source")
CheckEnd ==
    /\ pc = "check"
    /\ dirIdx > Len(dirs)
    /\ IF Len(dirs) = 0
       THEN pc' = "aborted" /\ panic' = "no vendored source"
       ELSE pc' = "checked" /\ panic' = panic
    /\ UNCHANGED <<whitelistVars, bad, stdout, dirs, dirIdx, licenseCalls>>

\* check(path, bad) is entered with the vendor directory present and *bad
\* holding whatever the checks before it left.
InitLicense ==
    /\ dirs \in DirLists
    /\ dirIdx = 1
    /\ bad \in BOOLEAN
    /\ pc = "check"
    /\ panic = ""
    /\ stdout = <<>>
    /\ licenseCalls = <<>>
    /\ nodes = <<>>
    /\ roots = <<>>
    /\ whitelist = {}
    /\ visited = {}
    /\ unapproved = {}
    /\ stack = <<>>
    /\ rootIdx = 1
    /\ lookups = <<>>

NextLicense == CheckSkip \/ CheckDir \/ CheckEnd

SpecLicense == InitLicense /\ [][NextLicense]_vars

\* The traversal under the scheduling of a sequential program: a step that
\* can be taken is taken.
FairSpec == Spec /\ WF_vars(Next)

----------------------------------------------------------------------------
(* Vocabulary of the properties *)

\* The text of a raw id or reference before its first space.
LeadingToken(s) ==
    IF \E i \in 1..Len(s) : s[i] = " "
    THEN SubSeq(s, 1, (CHOOSE i \in 1..Len(s) :
                          s[i] = " " /\ \A j \in 1..(i - 1) : s[j] # " ") - 1)
    ELSE s

\* Node n belongs to identity x: its raw id starts with x followed by a space.
Belongs(n, x) ==
    /\ Len(n.id) > Len(x)
    /\ SubSeq(n.id, 1, Len(x)) = x
    /\ n.id[Len(x) + 1] = " "

HasNode(x) == \E i \in 1..Len(nodes) : Belongs(nodes[i], x)

\* The identities named by the dependency lists of the nodes that belong to
\* an identity of S.
Successors(S) ==
    { LeadingToken(nodes[i].dependencies[j]) :
        <<i, j>> \in { p \in (1..Len(nodes)) \X (1..MaxDeps) :
                        /\ p[2] <= Len(nodes[p[1]].dependencies)
                        /\ \E x \in S : Belongs(nodes[p[1]], x) } }

RECURSIVE Closure(_)
Closure(S) == IF Successors(S) \subseteq S THEN S ELSE Closure(S \cup Successors(S))

\* Reachable identities: the roots and everything named, transitively, by
\* the nodes that belong to them.
Reachable == Closure({ roots[i] : i \in 1..Len(roots) })

\* How often the dependency list of x was looked up and walked.
ExpansionCount(x) == Cardinality({ i \in 1..Len(lookups) : lookups[i].krate = x })

\* The identities a node's dependency list names.
DepsOf(n) == { LeadingToken(nodes[n].dependencies[j]) :
                 j \in 1..Len(nodes[n].dependencies) }

----------------------------------------------------------------------------
(* Claims about the whitelist traversal *)

\* C1 (as stated): when the traversal completes, the violation set is exactly
\* the reachable identities minus the allow-set, an identity being reachable
\* through the dependency list of ANY node that belongs to a reachable
\* identity.
C1_ViolationsAreReachableMinusAllowed ==
    pc = "done" => unapproved = Reachable \ whitelist

\* The identities named by the dependency list of the FIRST node, in graph
\* order, that belongs to an identity of S.
FirstNodeSuccessors(S) ==
    UNION { DepsOf(i) : i \in { i \in 1..Len(nodes) :
                \E x \in S : /\ Belongs(nodes[i], x)
                             /\ \A j \in 1..(i - 1) : ~Belongs(nodes[j], x) } }

RECURSIVE FirstNodeClosure(_)
FirstNodeClosure(S) ==
    IF FirstNodeSuccessors(S) \subseteq S THEN S
    ELSE FirstNodeClosure(S \cup FirstNodeSuccessors(S))

\* What the violation set of a completed run is: the identities reachable
\* through first nodes only, minus the allow-set.
ViolationsAreFirstNodeClosure ==
    pc = "done" =>
        unapproved = FirstNodeClosure({ roots[i] : i \in 1..Len(roots) }) \ whitelist

\* C2: each identity's dependency list is expanded at most once in a run, and
\* exactly once for every identity reached (an identity whose lookup aborted
\* the run was never expanded).
C2_ExpandedOnce ==
    /\ \A i \in 1..Len(lookups) :
          /\ lookups[i].krate \in visited
          /\ ExpansionCount(lookups[i].krate) = 1
    /\ \A x \in visited :
          ExpansionCount(x) = 1 \/ (pc = "aborted" /\ ~HasNode(x))

\* C2 witness: a completed run in which the second root was also a dependency
\* of the first root's node, so it was reached twice and expanded once.
C2_Witness ==
    /\ pc = "done"
    /\ Len(roots) = 2
    /\ Len(lookups) = 2
    /\ lookups[1].krate = roots[1]
    /\ roots[2] \in DepsOf(lookups[1].node)
    /\ ExpansionCount(roots[2]) = 1

\* C3 (as stated): a reached package whose name is listed in the allow-set is
\* not reported; when every reached package is listed, nothing is reported
\* and the fail flag is not set.
C3_ListedNamesAreNotReported ==
    pc = "done" =>
        LET Listed(k) == \E w \in whitelist : LeadingToken(w) = k
        IN  /\ \A k \in visited : Listed(k) => k \notin unapproved
            /\ (\A k \in visited : Listed(k)) => (unapproved = {} /\ ~bad)

\* C4: an identity reached by the traversal (a root or a parsed dependency
\* reference) that has no node aborts the run with "crate does not exist";
\* such a run reports nothing, and a run that completes has found a node for
\* every identity it reached.
C4_MissingNodeAborts ==
    /\ \A x \in visited :
          ~HasNode(x) => (pc = "aborted" /\ panic = "crate does not exist")
    /\ pc = "aborted" => (stdout = <<>> /\ ~bad)

\* C4 witness: the run aborted inside the recursion, on a dependency.
C4_Witness ==
    /\ pc = "aborted"
    /\ panic = "crate does not exist"
    /\ stack # <<>>
    /\ \E x \in DepsOf(stack[Len(stack)].node) : x \in visited /\ ~HasNode(x)

\* C5: every run of the traversal ends, by returning or by aborting, also on
\* graphs with cycles.
C5_Terminates == <>(pc \in {"done", "aborted"})

\* C5 witness: a completed run over a cycle of two identities.
C5_Witness ==
    /\ pc = "done"
    /\ \E i, j \in 1..Len(lookups) :
          /\ lookups[i].krate # lookups[j].krate
          /\ lookups[j].krate \in DepsOf(lookups[i].node)
          /\ lookups[i].krate \in DepsOf(lookups[j].node)

\* C8 (as stated): an allow-set entry that names a package absent from the
\* graph makes the check fail fatally instead of completing.
C8_StaleEntryIsFatal ==
    (\E w \in whitelist : ~HasNode(LeadingToken(w))) => pc # "done"

\* C8 (amended): a whitelist root that names a package absent from the graph
\* makes the check fail fatally with "crate does not exist"; a check that
\* completes has called every root and found its node.
C8_AbsentRootIsFatal ==
    /\ \A i \in 1..Len(roots) :
          (roots[i] \in visited /\ ~HasNode(roots[i]))
              => (pc = "aborted" /\ panic = "crate does not exist")
    /\ pc = "done" =>
          \A i \in 1..Len(roots) : roots[i] \in visited /\ HasNode(roots[i])

\* C8 witness: the run aborted on a root while the allow-set held an entry
\* for a package the graph has.
C8_Witness ==
    /\ pc = "aborted"
    /\ stack = <<>>
    /\ ~HasNode(roots[rootIdx])
    /\ \E w \in whitelist : HasNode(LeadingToken(w))

\* C9: the node walked for identity X has a raw id whose leading token is
\* exactly X, and it is the first node in graph order that belongs to X.
C9_LookupIsExact ==
    \A i \in 1..Len(lookups) :
        /\ LeadingToken(nodes[lookups[i].node].id) = lookups[i].krate
        /\ \A j \in 1..(lookups[i].node - 1) :
              ~Belongs(nodes[j], lookups[i].krate)

\* C9 witness: ar was looked up behind a node of arena, whose raw id starts
\* with the letters of ar.
C9_Witness ==
    \E i \in 1..Len(lookups) :
        /\ lookups[i].krate = <<"a","r">>
        /\ lookups[i].node > 1
        /\ LeadingToken(nodes[1].id) = <<"a","r","e","n","a">>

\* C10: the violation lines are printed once each, in strictly ascending
\* order of identity, whatever the order of roots, nodes and dependency
\* references; they are the lines of the violation set and nothing else.
C10_SortedReport ==
    pc = "done" =>
        LET n == Cardinality(unapproved)
            Ident(k) == SubSeq(stdout[k].arg, 1, Len(stdout[k].arg) - 1)
        IN  /\ Len(stdout) = IF n = 0 THEN 0 ELSE n + 1
            /\ n > 0 => stdout[1].fmt = "Dependencies not on the whitelist:"
            /\ \A k \in 2..Len(stdout) :
                  /\ stdout[k].fmt = "* {}"
                  /\ stdout[k].arg[Len(stdout[k].arg)] = " "
                  /\ Ident(k) \in unapproved
            /\ \A k \in 2..(Len(stdout) - 1) : StrLess(Ident(k), Ident(k + 1))

\* C10 witness: two violations were printed although the traversal met them
\* in descending order.
C10_Witness ==
    /\ pc = "done"
    /\ Len(stdout) = 3
    /\ lookups[1].krate = <<"a","r","e","n","a">>
    /\ lookups[2].krate = <<"a","r">>

----------------------------------------------------------------------------
(* Claims about the license check *)

\* The entries check_license was called on.
Called == { licenseCalls[k] : k \in 1..Len(licenseCalls) }

Printed(line) == \E k \in 1..Len(stdout) : stdout[k] = line

QuoteCount(line) == Cardinality({ i \in 1..Len(line) : line[i] = "\"" })

\* C6 (as stated): check() evaluates check_license on every entry that is no
\* exception, and prints its diagnostic when the license is invalid or
\* missing, whatever *bad was on entry and whatever failed before.
C6_EveryEntryIsChecked ==
    pc = "checked" =>
        \A i \in 1..Len(dirs) :
            ~IsException(dirs[i].path) =>
                /\ i \in Called
                /\ \A k \in 1..Len(check_license(dirs[i]).out) :
                      Printed(check_license(dirs[i]).out[k])

\* C7 (as stated): when the license line of a checked manifest has no double
\* quote or exactly one, check_license prints "invalid license
\* bad-license-parse" and returns false, and the process is not aborted.
C7_MalformedQuotesGiveSentinel ==
    \A k \in 1..Len(licenseCalls) :
        LET dir == dirs[licenseCalls[k]]
            i == LicenseLine(dir.toml.lines)
        IN  (dir.toml.exists /\ i # 0 /\ QuoteCount(dir.toml.lines[i]) <= 1) =>
                /\ pc # "aborted"
                /\ bad
                /\ Printed([fmt |-> "invalid license {} in {}",
                            arg |-> <<<<"b","a","d","-","l","i","c","e","n","s","e","-","p","a","r","s","e">>, dir.path>>])

====
